---- MODULE Spec2Model ----
(***************************************************************************)
(* A model of SFMCore (src/core.py): the construction of the TensorFlow    *)
(* computation graph of a structure-aware factorization machine.           *)
(*                                                                         *)
(* Conventions.                                                            *)
(*  - Python None is the empty tuple.                                      *)
(*  - A variable of the graph is a handle                                  *)
(*        <<g, name, v, m, shape>>                                         *)
(*    g the number of the tf.Graph it lives in, name its name inside the   *)
(*    variable scope, <<v, m>> the scope (view, mode; 0 where the scope    *)
(*    has no such part), shape its static shape.                           *)
(*  - W, Bias, S, train_x ... are indexed by the mode id m in 1..n_modes,  *)
(*    where the source indexes a list by m-1.                              *)
(***************************************************************************)
EXTENDS Integers, Sequences, FiniteSets, TLC

None == <<>>

\* ---------------------------------------------------------------- bounds
\* tf.Graph objects one instance may create (calls of build_graph that pass
\* the assertion)
MaxBuilds == 2
\* feature dimensions range over 1..MaxFeat
MaxFeat == 2
\* runs of the trainer in one session
MaxRuns == 2
\* the random initializers and the batches are drawn from the samples
\* 1..MaxSeed (the seed'th batch has 1 + seed % 2 examples)
MaxSeed == 1
\* rows of a relation matrix (relational input)
NumEntities == 2

\* ---------------------------------------------------------------- inputs
\* view specifications given to the constructor
ViewLists ==
    { << <<1>> >>,
      << <<1, 2>> >>,
      << <<2, 1>> >>,
      << <<1, 1>> >>,
      << <<1, 2>>, <<1>> >>,
      << <<2>>, <<1, 2>> >>,
      << <<1, 2>>, <<1, 3>> >> }

\* the view specifications of the evaluated configurations
RunViewLists ==
    { << <<1>> >>,
      << <<1, 2>> >>,
      << <<2, 1>> >>,
      << <<1, 2>>, <<1>> >> }

Regs == {2}
ViewRanks == {0, 1}
\* 'dense' and 'sparse' are the documented tags; 'csr' stands for any other
InputTypes == {"dense", "sparse", "csr"}
RegTypes == {"L1", "L2"}

VARIABLES
    \* constructor arguments (lines 94-103, 110)
    view_list, co_rank, view_rank, input_type, reg_type, reg, isFullOrder,
    \* setters (lines 106, 109)
    n_feature_list, isRelational,
    \* build_graph (line 420)
    graph,
    \* _init_learnable_params
    W, Bias, S, Phi, b,
    \* _init_placeholders
    train_x, mode_matrices, raw_indices, raw_values, raw_shape, train_y,
    \* _init_main_block, _init_loss, _init_regular
    outputs, reduced_loss, regularization,
    \* _init_target
    target, checked_target,
    \* build_graph, lines 433-437
    trainer, init_all_vars, summary_op, saver,
    \* the variable store of the current graph: names tf.get_variable has
    \* registered
    varStore,
    \* the statement of build_graph that runs next ("idle": no call is active)
    pc,
    \* the exception the last build_graph call raised, "none" if it has not
    raised,
    \* the session of the current graph: the values of its variables (None
    \* until init_all_vars has run), the last feed, what the last run of
    \* the trainer computed, and the number of runs of the trainer
    val, feed_dict, fetched, runs

config == <<view_list, co_rank, view_rank, input_type, reg_type, reg, isFullOrder>>
params == <<W, Bias, S, Phi, b>>
placeholders == <<train_x, mode_matrices, raw_indices, raw_values, raw_shape, train_y>>
mainBlock == <<outputs, reduced_loss, regularization>>
objective == <<target, checked_target>>
surface == <<trainer, init_all_vars, summary_op, saver>>
session == <<val, feed_dict, fetched, runs>>
vars == <<config, n_feature_list, isRelational, graph, params, placeholders,
          mainBlock, objective, surface, varStore, pc, raised, session>>

\* ------------------------------------------------------------- helpers
Max(A) == CHOOSE x \in A : \A y \in A : y <= x
Min(A) == CHOOSE x \in A : \A y \in A : x <= y

\* set(modes)
ModesOf(modes) == {modes[k] : k \in 1..Len(modes)}

\* the order in which CPython iterates a set of small non-negative ints
RECURSIVE SetOrder(_)
SetOrder(A) == IF A = {} THEN <<>> ELSE <<Min(A)>> \o SetOrder(A \ {Min(A)})

RECURSIVE Flatten(_)
Flatten(ss) == IF ss = <<>> THEN <<>> ELSE Head(ss) \o Flatten(Tail(ss))

n_modes == Max(UNION {ModesOf(view_list[i]) : i \in 1..Len(view_list)})
n_views == Len(view_list)

\* the (v, m) pairs in the order of
\*   for i, modes in enumerate(self.view_list): v = i+1; for m in set(modes)
ViewModePairs ==
    Flatten([i \in 1..n_views |->
               LET order == SetOrder(ModesOf(view_list[i]))
               IN  [k \in 1..Len(order) |-> <<i, order[k]>>]])

gid == IF graph = None THEN 0 ELSE graph[1]

Slots == (0..n_views) \X (1..n_modes)

\* ------------------------------------------------- the TensorFlow library
\* (a faulty variant of Var: every variable is created in the graph of the first
\* build)
Var_FirstGraph(g, name, v, m, shape) == <<1, name, v, m, shape>>

\* a variable handle: the graph it was created in, its name, the view and
\* mode of its scope, its shape
Var(g, name, v, m, shape) == <<g, name, v, m, shape>>
\* a placeholder (or the SparseTensor built from three of them) of mode m
Placeholder(g, name, m) == <<g, name, m>>
\* the name under which the variable store knows a variable
NameOf(h) == <<h[2], h[3], h[4]>>

\* a symbolic tensor: the set of variable names its value is computed from
Tensor(reads) == <<"Tensor", reads>>
Raise(kind) == <<"raise", kind>>
IsRaise(t) == t[1] = "raise"

\* tf.matmul / tf.sparse_tensor_dense_matmul: converting a None operand to a
\* tensor raises ValueError('None values not supported.')
tf_matmul(A, B) ==
    IF A = None \/ B = None THEN Raise("ValueError") ELSE Tensor({NameOf(B)})

\* ------------------------------------------------------- matmul_wrapper
matmul_wrapper(A, B, optype) ==
    IF optype = "dense" THEN tf_matmul(A, B)
    ELSE IF optype = "sparse" THEN tf_matmul(A, B)
    ELSE Raise("NameError")

\* ----------------------------------------------- _init_learnable_params
\* with tf.variable_scope('view_'+str(v)+'_mode_' + str(m))
view_scope(v, m) == <<v, m>>

\* Line 173 reads the bare name init_scaling (not self.init_scaling). The
\* module defines no such global, so evaluating the initializer argument
\* raises NameError before tf.get_variable is called.
init_scaling_resolves == FALSE

\* one iteration of the loop body of lines 160-178, for the pair at the head
RECURSIVE InitViewParams(_, _)
InitViewParams(pairs, acc) ==
    IF pairs = <<>> THEN acc
    ELSE
      LET v == Head(pairs)[1]
          m == Head(pairs)[2]
          r == co_rank + view_rank
          sc == view_scope(v, m)
          bias == Var(gid, "bias", sc[1], sc[2], <<1, r>>)
          \* try: self.Bias[v][m-1] = tf.get_variable('bias', ...)
          \* get_variable raises ValueError when the name exists in the store
          acc1 == IF NameOf(bias) \in acc.store THEN acc
                  ELSE [acc EXCEPT !.Bias[<<v, m>>] = bias,
                                   !.store = @ \cup {NameOf(bias)}]
          tab == Var(gid, "embedding_init", sc[1], sc[2],
                     <<n_feature_list[m], view_rank>>)
          \* try: if self.view_rank>0: self.W[v][m-1] = tf.get_variable(...)
          acc2 == IF view_rank > 0 /\ init_scaling_resolves
                     /\ NameOf(tab) \notin acc1.store
                  THEN [acc1 EXCEPT !.W[<<v, m>>] = tab,
                                    !.store = @ \cup {NameOf(tab)}]
                  ELSE acc1
      IN  InitViewParams(Tail(pairs), acc2)

\* the state after lines 120-155: the arrays, Phi, b and the shared factors
SharedParams ==
    LET r == co_rank + view_rank
        co(m) == Var(gid, "embedding_init", 0, m, <<n_feature_list[m], co_rank>>)
        phi == Var(gid, "embedding_phi", 0, 0, <<r, n_views>>)
    IN  [W |-> [p \in Slots |-> IF p[1] = 0 THEN co(p[2]) ELSE None],
         Bias |-> [p \in Slots |-> None],
         S |-> [m \in 1..n_modes |-> Var(gid, "layer_norm_S", 0, m, <<r>>)],
         Phi |-> phi,
         b |-> Var(gid, "b", 0, 0, <<>>),
         store |-> {NameOf(phi)}
                   \cup {NameOf(co(m)) : m \in 1..n_modes}
                   \cup {<<"layer_norm_S", 0, m>> : m \in 1..n_modes}]

LearnableParams == InitViewParams(ViewModePairs, SharedParams)

\* ------------------------------------------------------------ the actions
\* the instance after __init__ (lines 94-110); the attributes that do not
\* exist before the first build are None
Constructed ==
    /\ graph = None
    /\ mode_matrices = None
    /\ W = None /\ Bias = None /\ S = None /\ Phi = None /\ b = None
    /\ train_x = None /\ raw_indices = None /\ raw_values = None
    /\ raw_shape = None /\ train_y = None
    /\ outputs = None /\ reduced_loss = None /\ regularization = None
    /\ target = None /\ checked_target = None
    /\ trainer = None /\ init_all_vars = None /\ summary_op = None
    /\ saver = None
    /\ varStore = {}
    /\ pc = "idle"
    /\ raised = "none"
    /\ val = None /\ feed_dict = None /\ fetched = None /\ runs = 0

\* graph construction: every view specification and input tag, the
\* documented defaults for the regularization
Init ==
    /\ view_list \in ViewLists
    /\ co_rank = 2
    /\ view_rank \in ViewRanks
    /\ input_type \in InputTypes
    /\ reg_type = "L2"
    /\ reg = 0
    /\ isFullOrder = TRUE
    /\ n_feature_list = None
    /\ isRelational = FALSE
    /\ Constructed

\* graph construction and evaluation: the instance after __init__,
\* set_num_features and set_relational_input
InitRun ==
    /\ view_list \in RunViewLists
    /\ co_rank = 2
    /\ view_rank \in ViewRanks
    /\ input_type \in {"dense", "sparse"}
    /\ reg_type \in RegTypes
    /\ reg \in Regs
    /\ isFullOrder = TRUE
    /\ n_feature_list \in [1..n_modes -> 1..MaxFeat]
    /\ isRelational \in BOOLEAN
    /\ Constructed

set_relational_input(isRel) ==
    /\ pc = "idle"
    /\ isRelational' = isRel
    /\ UNCHANGED <<config, n_feature_list, graph, params, placeholders,
                   mainBlock, objective, surface, varStore, pc, raised, session>>

set_num_features(nfl) ==
    /\ pc = "idle"
    /\ n_feature_list' = nfl
    /\ UNCHANGED <<config, isRelational, graph, params, placeholders,
                   mainBlock, objective, surface, varStore, pc, raised, session>>

\* (a faulty variant of BuildOrder: the input block is built before the parameters)
BuildOrder_InputsFirst ==
    <<"placeholders", "params", "main_block", "target", "minimize">>

\* the statements of build_graph after line 421, in the order of lines
\* 422-437
BuildOrder == <<"params", "placeholders", "main_block", "target", "minimize">>

\* the statement that follows a completed one ("idle": the call returns)
After(step) ==
    LET k == CHOOSE i \in 1..Len(BuildOrder) : BuildOrder[i] = step
    IN  IF k = Len(BuildOrder) THEN "idle" ELSE BuildOrder[k + 1]

\* (a faulty variant of assert_n_feature_list: the assertion does not stop the call)
assert_n_feature_list_Off == TRUE

\* assert self.n_feature_list is not None (line 419)
assert_n_feature_list == n_feature_list # None

\* lines 419-421: the assertion, then a fresh graph (whose variable store is
\* empty) becomes the default graph
build_graph ==
    /\ pc = "idle"
    /\ gid < MaxBuilds
    /\ IF ~assert_n_feature_list
       THEN /\ raised' = "AssertionError"
            /\ UNCHANGED <<graph, varStore, pc, session>>
       ELSE /\ raised' = "none"
            /\ graph' = <<gid + 1>>
            /\ varStore' = {}
            /\ pc' = BuildOrder[1]
            \* the new graph has no session yet
            /\ val' = None /\ feed_dict' = None /\ fetched' = None
            /\ runs' = 0
    /\ UNCHANGED <<config, n_feature_list, isRelational, params, placeholders,
                   mainBlock, objective, surface>>

_init_learnable_params ==
    /\ pc = "params"
    /\ IF n_feature_list = None
       \* self.n_feature_list[m] (line 149) raises TypeError, after Phi and b
       THEN /\ W' = [p \in Slots |-> None]
            /\ Bias' = [p \in Slots |-> None]
            /\ S' = [m \in 1..n_modes |-> None]
            /\ Phi' = Var(gid, "embedding_phi", 0, 0,
                          <<co_rank + view_rank, n_views>>)
            /\ b' = Var(gid, "b", 0, 0, <<>>)
            /\ varStore' = {<<"embedding_phi", 0, 0>>}
            /\ raised' = "TypeError"
            /\ pc' = "idle"
       ELSE /\ LET p == LearnableParams
               IN  /\ W' = p.W
                   /\ Bias' = p.Bias
                   /\ S' = p.S
                   /\ Phi' = p.Phi
                   /\ b' = p.b
                   /\ varStore' = p.store
            /\ pc' = After("params")
            /\ UNCHANGED raised
    /\ UNCHANGED <<config, n_feature_list, isRelational, graph, placeholders,
                   mainBlock, objective, surface, session>>

_init_placeholders ==
    /\ pc = "placeholders"
    /\ LET sparseT(m) == Placeholder(gid, "SparseTensor", m)
       IN
       /\ train_x' =
            [m \in 1..n_modes |->
               IF isRelational THEN Placeholder(gid, "X_indices", m)
               ELSE IF input_type = "dense" THEN Placeholder(gid, "X", m)
               ELSE sparseT(m)]
       /\ IF isRelational
          THEN mode_matrices' =
                 [m \in 1..n_modes |->
                    IF input_type = "dense"
                    THEN Placeholder(gid, "X_matrix", m)
                    ELSE sparseT(m)]
          ELSE UNCHANGED mode_matrices
       \* if self.input_type != 'dense': every other tag takes the sparse path
       /\ IF input_type # "dense"
          THEN /\ raw_indices' =
                    [m \in 1..n_modes |-> Placeholder(gid, "raw_indices", m)]
               /\ raw_values' =
                    [m \in 1..n_modes |-> Placeholder(gid, "raw_data", m)]
               /\ raw_shape' =
                    [m \in 1..n_modes |-> Placeholder(gid, "raw_shape", m)]
          ELSE UNCHANGED <<raw_indices, raw_values, raw_shape>>
       /\ train_y' = Placeholder(gid, "Y", 0)
    /\ pc' = After("placeholders")
    /\ UNCHANGED <<config, n_feature_list, isRelational, graph, params,
                   mainBlock, objective, surface, varStore, raised, session>>

\* ------------------------------------------------- _view_mode_embedding
\* tf.nn.embedding_lookup(modeEmbedding, self.train_x[m])
embedding_lookup(emb, ids) == emb

_view_mode_embedding(v, m) ==
    IF isRelational
    THEN LET modeEmbedding ==
               matmul_wrapper(mode_matrices[m], W[<<v, m>>], input_type)
         IN  IF IsRaise(modeEmbedding) THEN modeEmbedding
             ELSE embedding_lookup(modeEmbedding, train_x[m])
    ELSE matmul_wrapper(train_x[m], W[<<v, m>>], input_type)

\* ------------------------------------------------------ _init_main_block
\* (a faulty variant of outputs_init: the output sum starts from the global bias)
outputs_init_GlobalBias == Tensor({NameOf(b)})

\* self.outputs = 0 (line 345; "self.outputs = self.b" is commented out)
outputs_init == Tensor({})

\* XW_list[m-1] of view v after lines 362-367
ViewModeXW(v, m) ==
    LET cache == _view_mode_embedding(0, m)
        XW == _view_mode_embedding(v, m)
        cat == IF view_rank > 0
               THEN IF IsRaise(XW) THEN XW ELSE Tensor(cache[2] \cup XW[2])
               ELSE cache
    IN  IF IsRaise(cat) THEN cat
        \* XW_list[m-1] += self.Bias[v][m-1]
        ELSE IF Bias[<<v, m>>] = None THEN Raise("ValueError")
        ELSE Tensor(cat[2] \cup {NameOf(Bias[<<v, m>>])})

\* the embeddings in the order lines 351-367 compute them: XW_cache[m] for
\* every mode, then XW_list[m-1] for every view and every m in modes
EmbeddingOrder ==
    [m \in 1..n_modes |-> _view_mode_embedding(0, m)]
    \o Flatten([i \in 1..n_views |->
                  [k \in 1..Len(view_list[i]) |->
                     ViewModeXW(i, view_list[i][k])]])

\* lines 373-385: pack the entries of XW_list that are not None, reduce_prod,
\* then matmul with Phi[:,i]
view_contribution(i) ==
    Tensor(UNION {ViewModeXW(i, m)[2] : m \in ModesOf(view_list[i])}
           \cup {NameOf(Phi)})

\* the value of self.outputs when lines 345-388 complete, or the first
\* exception they raise
MainBlockOutputs ==
    LET raises == {k \in 1..Len(EmbeddingOrder) : IsRaise(EmbeddingOrder[k])}
    IN  IF raises # {} THEN EmbeddingOrder[Min(raises)]
        ELSE Tensor(outputs_init[2]
                    \cup UNION {view_contribution(i)[2] : i \in 1..n_views})

\* --------------------------------------------------------- _init_regular
\* _regularizer_func raises on a None tensor (tf.abs / tf.nn.l2_loss cannot
\* convert None)
\* lines 257-274: acc.terms are the names of the tensors whose norm has been
\* added, acc.norm the tensor the local variable norm was last computed from
RECURSIVE RegularViewTerms(_, _)
RegularViewTerms(pairs, acc) ==
    IF pairs = <<>> THEN acc
    ELSE
      LET p == Head(pairs)
          \* try: norm = self._regularizer_func(self.Bias[v][m-1], ...)
          n1 == IF Bias[p] = None THEN acc.norm ELSE NameOf(Bias[p])
          t1 == Append(acc.terms, n1)
          \* if self.view_rank > 0: try: norm = ...(self.W[v][m-1], ...)
          n2 == IF view_rank > 0 /\ W[p] # None THEN NameOf(W[p]) ELSE n1
          t2 == IF view_rank > 0 THEN Append(t1, n2) ELSE t1
      IN  RegularViewTerms(Tail(pairs), [terms |-> t2, norm |-> n2])

\* (a faulty variant of RegularTerms: the norm of the whole mixing matrix is left out)
RegularTerms_NoPhi ==
    LET shared == [m \in 1..n_modes |-> NameOf(W[<<0, m>>])]
    IN  RegularViewTerms(ViewModePairs,
                         [terms |-> shared, norm |-> shared[n_modes]]).terms

\* the tensors whose norms self.regularization sums, in order (a tensor
\* listed twice is counted twice). The norms of the columns Phi[:,v] (lines
\* 276-278) are only written to the summary.
RegularTerms ==
    LET shared == [m \in 1..n_modes |-> NameOf(W[<<0, m>>])]
        views == RegularViewTerms(ViewModePairs,
                                  [terms |-> shared, norm |-> shared[n_modes]])
    IN  Append(views.terms, NameOf(Phi))

_init_main_block ==
    /\ pc = "main_block"
    /\ IF IsRaise(MainBlockOutputs)
       THEN /\ outputs' = <<gid, "0", {}>>
            /\ raised' = MainBlockOutputs[2]
            /\ pc' = "idle"
            /\ UNCHANGED <<reduced_loss, regularization>>
       ELSE /\ outputs' = <<gid, "output", MainBlockOutputs[2]>>
            \* _init_loss
            /\ reduced_loss' = <<gid, "loss">>
            \* _init_regular
            /\ regularization' = <<gid, "regularization_penalty", RegularTerms>>
            /\ pc' = After("main_block")
            /\ UNCHANGED raised
    /\ UNCHANGED <<config, n_feature_list, isRelational, graph, params,
                   placeholders, objective, surface, varStore, session>>

\* _init_regular called on its own under the graph of the build, on the
\* parameters _init_learnable_params allocated (lines 247-282)
_init_regular ==
    /\ pc = After("params")
    /\ regularization' = <<gid, "regularization_penalty", RegularTerms>>
    /\ pc' = "idle"
    /\ UNCHANGED <<config, n_feature_list, isRelational, graph, params,
                   placeholders, outputs, reduced_loss, objective, surface,
                   varStore, raised, session>>

\* ---------------------------------------------------------- _init_target
_init_target ==
    /\ pc = "target"
    \* self.target = self.reduced_loss + self.reg * self.regularization
    /\ target' = <<gid, "add">>
    \* tf.verify_tensor_all_finite(self.target, ...)
    /\ checked_target' = <<gid, "verify_tensor_all_finite">>
    /\ pc' = After("target")
    /\ UNCHANGED <<config, n_feature_list, isRelational, graph, params,
                   placeholders, mainBlock, surface, varStore, raised, session>>

\* --------------------------------------------- build_graph, lines 433-437
\* the tensor handed to self.optimizer.minimize
minimize_argument == "checked_target"

build_graph_trainer ==
    /\ pc = "minimize"
    /\ trainer' = <<gid, "minimize", minimize_argument>>
    /\ init_all_vars' = <<gid, "initialize_all_variables">>
    /\ summary_op' = <<gid, "merge_all_summaries">>
    /\ saver' = <<gid, "Saver">>
    /\ pc' = After("minimize")
    /\ UNCHANGED <<config, n_feature_list, isRelational, graph, params,
                   placeholders, mainBlock, objective, varStore, raised, session>>

\* ================================================= evaluation of the graph
\* A matrix is the sequence of its rows. Norms, the loss and the target are
\* counted in halves (the value 13 stands for 6.5), so that tf.nn.l2_loss
\* stays an integer.
RECURSIVE SumSeq(_)
SumSeq(s) == IF s = <<>> THEN 0 ELSE Head(s) + SumSeq(Tail(s))

Abs(x) == IF x < 0 THEN 0 - x ELSE x

\* a sequence given as a function, evaluated once (TLC keeps a function
\* constructor unevaluated and recomputes an entry at every use)
Strict(f) == f \o <<>>

\* tf.matmul
tf_matmul_value(A, B) ==
    LET a == A
        bb == B
    IN  Strict([i \in 1..Len(a) |->
           Strict([j \in 1..Len(bb[1]) |->
              SumSeq([k \in 1..Len(bb) |-> a[i][k] * bb[k][j]])])])

\* tf.sparse_tensor_dense_matmul of SparseTensor(indices, values, shape)
\* (indices count from 0)
tf_sparse_tensor_dense_matmul_value(sp, B) ==
    LET a == sp
        bb == B
    IN  Strict([i \in 1..a.shape[1] |->
           Strict([j \in 1..Len(bb[1]) |->
              SumSeq([k \in 1..Len(a.values) |->
                        IF a.indices[k][1] = i - 1
                        THEN a.values[k] * bb[a.indices[k][2] + 1][j]
                        ELSE 0])])])

\* matmul_wrapper (lines 453-458), on values
matmul_wrapper_value(A, B, optype) ==
    IF optype = "dense" THEN tf_matmul_value(A, B)
    ELSE IF optype = "sparse" THEN tf_sparse_tensor_dense_matmul_value(A, B)
    ELSE Raise("NameError")

\* tf.nn.embedding_lookup(params, ids): the rows params[ids] (ids from 0)
embedding_lookup_value(emb, ids) ==
    LET table == emb
    IN  Strict([e \in 1..Len(ids) |-> table[ids[e] + 1]])

\* whether the graph was built for relational input (self.isRelational when
\* _init_placeholders ran)
BuiltRelational == train_x[1][2] = "X_indices"

_view_mode_embedding_value(vals, fd, v, m) ==
    IF BuiltRelational
    THEN embedding_lookup_value(
             matmul_wrapper_value(fd.mode_matrices[m],
                                  vals[NameOf(W[<<v, m>>])], input_type),
             fd.train_x[m])
    ELSE matmul_wrapper_value(fd.train_x[m], vals[NameOf(W[<<v, m>>])],
                              input_type)

\* XW_list[m-1] of view v (lines 362-367)
XW_value(vals, fd, v, m) ==
    LET cache == _view_mode_embedding_value(vals, fd, 0, m)
        \* tf.concat(1, [self.XW_cache[m-1], XW])
        cat == IF view_rank > 0
               THEN LET XW == _view_mode_embedding_value(vals, fd, v, m)
                    IN  Strict([e \in 1..Len(cache) |-> cache[e] \o XW[e]])
               ELSE cache
        bias == vals[NameOf(Bias[<<v, m>>])]
    IN  Strict([e \in 1..Len(cat) |->
           Strict([j \in 1..Len(cat[e]) |-> cat[e][j] + bias[1][j]])])

\* (a faulty variant of reduce_prod: the first packed embedding alone)
reduce_prod_First(ts) == ts[1]

\* tf.reduce_prod over the packed embeddings
RECURSIVE reduce_prod(_)
reduce_prod(ts) ==
    IF Len(ts) = 1 THEN ts[1]
    ELSE LET first == ts[1]
             rest == reduce_prod(Tail(ts))
         IN  Strict([e \in 1..Len(rest) |->
                Strict([j \in 1..Len(rest[e]) |-> first[e][j] * rest[e][j]])])

\* self.prod_embedding[i] (lines 373-374): XW_list holds one entry per mode
\* of the view, in the order of the mode ids
prod_embedding_value(vals, fd, i) ==
    LET order == SetOrder(ModesOf(view_list[i]))
    IN  reduce_prod(Strict([k \in 1..Len(order) |->
                              XW_value(vals, fd, i, order[k])]))

\* self.view_contribution[i] (line 385)
view_contribution_value(vals, fd, i) ==
    LET phi == vals[NameOf(Phi)]
        column == Strict([k \in 1..Len(phi) |-> <<phi[k][i]>>])
    IN  tf_matmul_value(prod_embedding_value(vals, fd, i), column)

\* self.outputs (lines 345 and 388), of shape [batch, 1]
outputs_value(vals, fd) ==
    LET contribution == Strict([i \in 1..n_views |->
                                  view_contribution_value(vals, fd, i)])
    IN  Strict([e \in 1..fd.batch |->
           <<0 + SumSeq([i \in 1..n_views |-> contribution[i][e][1]])>>])

\* _regularizer_func, in halves
_regularizer_func_value(Wm) ==
    LET entries == Flatten(Wm)
    IN  IF reg_type = "L1"
        THEN 2 * SumSeq([k \in 1..Len(entries) |-> Abs(entries[k])])
        ELSE SumSeq([k \in 1..Len(entries) |-> entries[k] * entries[k]])

\* self.regularization, in halves: the norms of the tensors _init_regular
\* accumulated
regularization_value(vals) ==
    LET terms == regularization[3]
    IN  SumSeq([k \in 1..Len(terms) |-> _regularizer_func_value(vals[terms[k]])])

\* floating point: a finite number of halves, NaN, or infinity
Fin(n) == <<"finite", n>>
NaN == <<"nan", 0>>
Inf == <<"inf", 0>>
IsFinite(x) == x[1] = "finite"
FAdd(x, y) ==
    IF x[1] = "nan" \/ y[1] = "nan" THEN NaN
    ELSE IF x[1] = "inf" \/ y[1] = "inf" THEN Inf
    ELSE Fin(x[2] + y[2])

\* self.target = self.reduced_loss + self.reg * self.regularization
target_value(loss, vals) == FAdd(loss, Fin(reg * regularization_value(vals)))

\* ------------------------------------------------------------ the session
\* the variables of the current graph
Variables ==
    ({Phi, b} \cup {S[m] : m \in 1..n_modes})
    \cup (({W[p] : p \in Slots} \cup {Bias[p] : p \in Slots}) \ {None})

HandleOf(n) == CHOOSE h \in Variables : NameOf(h) = n

\* the value an initializer gives a variable: zeros for the biases and b,
\* ones for S, the seed'th sample of the random initializer otherwise
InitialValue(h, seed) ==
    LET rows == IF Len(h[5]) = 2 THEN h[5][1] ELSE 1
        cols == IF Len(h[5]) = 2 THEN h[5][2]
                ELSE IF Len(h[5]) = 1 THEN h[5][1] ELSE 1
    IN  Strict([i \in 1..rows |->
           Strict([j \in 1..cols |->
              IF h[2] \in {"bias", "b"} THEN 0
              ELSE IF h[2] = "layer_norm_S" THEN 1
              ELSE ((seed + 2 * i + 3 * j + h[3] + 2 * h[4]) % 5) - 2])])

\* the seed'th sample of a batch: dense features in 0..2, row ids in
\* 0..NumEntities-1
DenseSample(seed, m, rows, cols) ==
    Strict([i \in 1..rows |->
              Strict([j \in 1..cols |-> (seed + i + 2 * j + m) % 3])])

\* scipy's COO form of a dense matrix: the nonzero cells in row-major order
ToSparse(D) ==
    LET cells == Flatten([i \in 1..Len(D) |->
                            [j \in 1..Len(D[i]) |-> <<i, j>>]])
        nonzero(c) == D[c[1]][c[2]] # 0
        nz == SelectSeq(cells, nonzero)
    IN  [indices |-> [k \in 1..Len(nz) |-> <<nz[k][1] - 1, nz[k][2] - 1>>],
         values |-> [k \in 1..Len(nz) |-> D[nz[k][1]][nz[k][2]]],
         shape |-> <<Len(D), Len(D[1])>>]

Matrix(D) == IF input_type = "dense" THEN D ELSE ToSparse(D)

\* what is bound to the placeholders of _init_placeholders
Feed(seed) ==
    LET batch == 1 + (seed % 2)
    IN
    [batch |-> batch,
     train_x |->
       [m \in 1..n_modes |->
          IF BuiltRelational
          THEN [e \in 1..batch |-> (seed + e + m) % NumEntities]
          ELSE Matrix(DenseSample(seed, m, batch, W[<<0, m>>][5][1]))],
     mode_matrices |->
       [m \in 1..n_modes |->
          IF BuiltRelational
          THEN Matrix(DenseSample(seed + 1, m, NumEntities, W[<<0, m>>][5][1]))
          ELSE None]]

\* the variables the optimizer updates: trainable ones the objective is
\* computed from
Updated ==
    {n \in outputs[3] \cup {regularization[3][k] :
                              k \in 1..Len(regularization[3])} :
       n[1] = "bias" => isFullOrder}

\* one step of the optimizer (any change of the updated variables is
\* possible; the sample moves every entry by -1, 0 or 1)
Step(vals) ==
    LET updated == Updated
    IN  [n \in DOMAIN vals |->
           IF n \in updated
           THEN Strict([i \in 1..Len(vals[n]) |->
                   Strict([j \in 1..Len(vals[n][i]) |->
                      vals[n][i][j] + 1 - ((i + j) % 3)])])
           ELSE vals[n]]

LossValues == {Fin(3), NaN, Inf}

Trainable ==
    /\ pc = "idle"
    /\ raised = "none"
    /\ trainer # None
    /\ trainer[1] = gid

\* session.run(self.init_all_vars)
run_init_all_vars(seed) ==
    /\ Trainable
    /\ val = None
    /\ val' = [n \in {NameOf(h) : h \in Variables} |->
                 InitialValue(HandleOf(n), seed)]
    /\ UNCHANGED <<config, n_feature_list, isRelational, graph, params,
                   placeholders, mainBlock, objective, surface, varStore, pc,
                   raised, feed_dict, fetched, runs>>

\* session.run(self.trainer, feed_dict). The trainer is built from
\* checked_target (line 433), the identity of target under a control
\* dependency on a CheckNumerics op (lines 412-414). The update ops are
\* computed from the gradients, and the graph of lines 406-433 does not
\* order them after the CheckNumerics op: whether that op is evaluated
\* before the updates (checked) is left to the TensorFlow build and to the
\* fetches of the caller. When it is and the target is NaN or Inf the run
\* fails with InvalidArgumentError('NaN or Inf in target value') and no
\* variable is assigned; otherwise the update is applied.
run_trainer(seed, loss, checked) ==
    /\ Trainable
    /\ val # None
    /\ runs < MaxRuns
    /\ LET fd == Feed(seed)
           t == target_value(loss, val)
           fails == /\ trainer[3] = "checked_target"
                    /\ checked
                    /\ ~IsFinite(t)
       IN  /\ feed_dict' = fd
           /\ fetched' = [vals |-> val,
                          prod_embedding |->
                            Strict([i \in 1..n_views |->
                                      prod_embedding_value(val, fd, i)]),
                          view_contribution |->
                            Strict([i \in 1..n_views |->
                                      view_contribution_value(val, fd, i)]),
                          outputs |-> outputs_value(val, fd),
                          regularization |-> regularization_value(val),
                          reduced_loss |-> loss,
                          target |-> t,
                          error |-> IF fails THEN "InvalidArgumentError"
                                    ELSE "none"]
           /\ val' = IF fails THEN val ELSE Step(val)
           \* a step with a NaN or Inf target is the last one followed: the
           \* run raised, or its update left NaN in the variables
           /\ runs' = IF IsFinite(t) THEN runs + 1 ELSE MaxRuns
    /\ UNCHANGED <<config, n_feature_list, isRelational, graph, params,
                   placeholders, mainBlock, objective, surface, varStore, pc,
                   raised>>

Next ==
    \/ \E isRel \in BOOLEAN : set_relational_input(isRel)
    \/ \E nfl \in [1..n_modes -> 1..MaxFeat] : set_num_features(nfl)
    \/ build_graph
    \/ _init_learnable_params
    \/ _init_placeholders
    \/ _init_main_block
    \/ _init_target
    \/ build_graph_trainer

Spec == Init /\ [][Next]_vars

NextRun ==
    \/ build_graph
    \/ _init_learnable_params
    \/ _init_placeholders
    \/ _init_main_block
    \/ _init_target
    \/ build_graph_trainer
    \/ \E seed \in 1..MaxSeed : run_init_all_vars(seed)
    \/ \E seed \in 1..MaxSeed, loss \in LossValues, checked \in BOOLEAN :
          run_trainer(seed, loss, checked)

SpecRun == InitRun /\ [][NextRun]_vars

\* the parameter allocation followed by the regularization accumulator alone
NextRegular ==
    \/ \E nfl \in [1..n_modes -> 1..MaxFeat] : set_num_features(nfl)
    \/ build_graph
    \/ _init_learnable_params
    \/ _init_regular

SpecRegular == Init /\ [][NextRegular]_vars

\* ===================================================== the orchestrator
IsNone(x) == DOMAIN x = {}
InGraph(x) == ~IsNone(x) /\ x[1] = gid

\* the (view, mode) pairs of the view specification
Listed == {ViewModePairs[k] : k \in 1..Len(ViewModePairs)}

\* every parameter slot the allocation fills holds a variable of the
\* current graph
ParamsInGraph ==
    /\ InGraph(Phi) /\ InGraph(b)
    /\ ~IsNone(W) /\ ~IsNone(Bias) /\ ~IsNone(S)
    /\ \A m \in 1..n_modes : InGraph(W[<<0, m>>]) /\ InGraph(S[m])
    /\ \A p \in Listed : InGraph(Bias[p])
InputsInGraph ==
    /\ InGraph(train_y)
    /\ ~IsNone(train_x)
    /\ \A m \in 1..n_modes : InGraph(train_x[m])
AssembledInGraph ==
    /\ InGraph(outputs) /\ outputs[2] = "output"
    /\ InGraph(reduced_loss) /\ InGraph(regularization)
ObjectiveInGraph == InGraph(target) /\ InGraph(checked_target)
SurfaceInGraph ==
    /\ InGraph(trainer) /\ InGraph(init_all_vars)
    /\ InGraph(summary_op) /\ InGraph(saver)

\* what of the current graph exists, as the states of section 4.7
OrchState ==
    <<ParamsInGraph, InputsInGraph, AssembledInGraph, ObjectiveInGraph,
      SurfaceInGraph>>
Unbuilt == <<FALSE, FALSE, FALSE, FALSE, FALSE>>
ParamsAllocated == <<TRUE, FALSE, FALSE, FALSE, FALSE>>
InputsBound == <<TRUE, TRUE, FALSE, FALSE, FALSE>>
InteractionsAssembled == <<TRUE, TRUE, TRUE, FALSE, FALSE>>
ObjectiveReady == <<TRUE, TRUE, TRUE, TRUE, FALSE>>
TrainableState == <<TRUE, TRUE, TRUE, TRUE, TRUE>>

\* C1: within a build_graph call the instance is Unbuilt until the parameters
\* are allocated, then exactly ParamsAllocated, InputsBound,
\* InteractionsAssembled and ObjectiveReady at the successive statements,
\* and Trainable when the call returns without an exception: each statement
\* finds everything the earlier ones create and nothing of the later ones
C1_StrictOrder ==
    /\ pc = "params" => OrchState = Unbuilt
    /\ pc = "placeholders" => OrchState = ParamsAllocated
    /\ pc = "main_block" => OrchState = InputsBound
    /\ pc = "target" => OrchState = InteractionsAssembled
    /\ pc = "minimize" => OrchState = ObjectiveReady
    /\ (pc = "idle" /\ raised = "none" /\ gid > 0) => OrchState = TrainableState
    /\ OrchState \in {Unbuilt, ParamsAllocated, InputsBound,
                      InteractionsAssembled, ObjectiveReady, TrainableState}

C1_Witness ==
    /\ pc = "idle" /\ raised = "none" /\ gid > 0
    /\ OrchState = TrainableState

\* C2: while the feature dimensions have never been supplied, build_graph
\* only raises the assertion error: no graph, parameter, input tensor,
\* objective or trainer exists
C2_MissingFeatureDimensions ==
    n_feature_list = None =>
        /\ raised \in {"none", "AssertionError"}
        /\ pc = "idle"
        /\ graph = None /\ varStore = {}
        /\ IsNone(W) /\ IsNone(Bias) /\ IsNone(S) /\ Phi = None /\ b = None
        /\ IsNone(train_x) /\ train_y = None
        /\ outputs = None /\ checked_target = None
        /\ trainer = None /\ saver = None

C2_Witness ==
    /\ raised = "AssertionError"
    /\ n_feature_list = None
    /\ graph = None

\* C3 as stated: once the parameter tensors exist they are never replaced
C3_NeverRecreated ==
    [][~IsNone(W) => (W' = W /\ Bias' = Bias /\ Phi' = Phi /\ b' = b)]_vars

\* C3 amended: every build_graph call that passes the assertion allocates
\* the parameters anew in its own graph, each variable name registered by
\* exactly one slot; an earlier parameter set is replaced by the allocation
\* step of a later call
C3_OncePerBuild ==
    (gid > 0 /\ pc # "params") =>
        /\ ParamsInGraph
        /\ \A p \in Slots : ~IsNone(W[p]) => InGraph(W[p])
        /\ varStore = {NameOf(h) : h \in Variables \ {b}}
        /\ Cardinality(varStore)
             = 1 + 2 * n_modes
               + Cardinality({p \in Slots : ~IsNone(W[p]) /\ p[1] > 0})
               + Cardinality(Listed)

C3_Witness ==
    /\ gid = MaxBuilds
    /\ pc = "idle"
    /\ OrchState = TrainableState

\* C4 as stated: after the allocation every listed (view, mode) has its
\* bias, has its table of shape [feature_dim[m], view_rank] exactly when
\* view_rank > 0, and every mode has its shared table of width co_rank
C4_ViewTables ==
    pc = "placeholders" =>
        /\ \A p \in Listed :
             /\ ~IsNone(Bias[p])
             /\ view_rank > 0 =>
                  /\ ~IsNone(W[p])
                  /\ W[p][5] = <<n_feature_list[p[2]], view_rank>>
             /\ view_rank = 0 => IsNone(W[p])
        /\ \A m \in 1..n_modes :
             /\ ~IsNone(W[<<0, m>>])
             /\ W[<<0, m>>][5] = <<n_feature_list[m], co_rank>>

\* C8 as stated: with a tag other than 'dense' and 'sparse' the build fails
\* with the NameError of matmul_wrapper, no trainer is exposed, and no
\* statement before the error treats the tag as 'dense' or 'sparse'
C8_StrictDispatch ==
    input_type \notin {"dense", "sparse"} =>
        /\ trainer = None
        /\ (pc = "idle" /\ gid > 0) => raised = "NameError"
        \* nothing of the sparse input path
        /\ IsNone(raw_indices) /\ IsNone(raw_values) /\ IsNone(raw_shape)
        \* nothing of the dense input path
        /\ ~IsNone(train_x) =>
             \A m \in 1..n_modes : train_x[m][2] \notin {"X", "SparseTensor"}

\* two views that list the same mode
SharedModes ==
    {t \in (1..n_views) \X (1..n_views) \X (1..n_modes) :
       /\ t[1] < t[2]
       /\ <<t[1], t[3]>> \in Listed
       /\ <<t[2], t[3]>> \in Listed}

\* C9 as stated: with view_rank > 0 the table of a mode two views list is
\* created for the earlier view and skipped for the later one
C9_SkippedForLaterView ==
    (pc = "placeholders" /\ view_rank > 0) =>
        \A t \in SharedModes :
            /\ ~IsNone(W[<<t[1], t[3]>>])
            /\ IsNone(W[<<t[2], t[3]>>])

\* C10 as stated: when a listed (view, mode) table or bias did not
\* materialize, the build still completes
C10_BuildCompletes ==
    (/\ pc = "idle"
     /\ ParamsInGraph
     /\ input_type \in {"dense", "sparse"}
     /\ \E p \in Listed : view_rank > 0 /\ IsNone(W[p]))
    => (raised = "none" /\ OrchState = TrainableState)

\* ============================================================ evaluation
\* a training step has been evaluated
HasRun == ~IsNone(fetched)

SingleViewSingleMode == view_list = << <<1>> >> /\ view_rank = 0

\* the shared embedding of mode m in the evaluated step
E0(m) == _view_mode_embedding_value(fetched.vals, feed_dict, 0, m)

\* sum of f over the finite set D
RECURSIVE SumOver(_, _)
SumOver(D, f) ==
    IF D = {} THEN 0
    ELSE LET x == CHOOSE y \in D : TRUE
         IN  f[x] + SumOver(D \ {x}, f)

\* C5 as stated: with one view of one mode and view_rank = 0 the output is
\* matmul(E0, Phi[:,0]) plus the bias, the global bias b being a term of
\* the output sum
C5_GlobalBiasInOutput ==
    (SingleViewSingleMode /\ HasRun) =>
        LET phi == fetched.vals[NameOf(Phi)]
            bv == fetched.vals[NameOf(b)][1][1]
            e0 == E0(1)
        IN  /\ NameOf(b) \in outputs[3]
            /\ \A e \in 1..feed_dict.batch :
                 fetched.outputs[e][1]
                   = bv + SumOver(1..Len(phi),
                                  [k \in 1..Len(phi) |-> e0[e][k] * phi[k][1]])

\* C5 amended: with one view of one mode and view_rank = 0 the output is
\* matmul(E0 + Bias[1][mode], Phi[:,0]): linear in the embedding, the
\* view-mode bias added to the embedding before the projection, and the
\* global bias b is no term of the output
C5_LinearProjection ==
    (SingleViewSingleMode /\ HasRun) =>
        LET phi == fetched.vals[NameOf(Phi)]
            bias == fetched.vals[NameOf(Bias[<<1, 1>>])]
            e0 == E0(1)
        IN  /\ outputs[3]
                 = {NameOf(W[<<0, 1>>]), NameOf(Bias[<<1, 1>>]), NameOf(Phi)}
            /\ NameOf(b) \notin outputs[3]
            /\ \A e \in 1..feed_dict.batch :
                 fetched.outputs[e][1]
                   = SumOver(1..Len(phi),
                             [k \in 1..Len(phi) |->
                                (e0[e][k] + bias[1][k]) * phi[k][1]])

\* a step evaluated with a bias that is not zero
C5_Witness ==
    /\ SingleViewSingleMode /\ HasRun
    /\ \E k \in 1..co_rank : fetched.vals[NameOf(Bias[<<1, 1>>])][1][k] # 0
    /\ \E e \in 1..feed_dict.batch : fetched.outputs[e][1] # 0

\* the configured norm of a tensor value, in halves: twice the sum of the
\* absolute values for 'L1', the sum of the squares otherwise
NormHalves(Wm) ==
    LET cells == {c \in (1..Len(Wm)) \X (1..Len(Wm[1])) : TRUE}
    IN  IF reg_type = "L1"
        THEN SumOver(cells, [c \in cells |-> 2 * Abs(Wm[c[1]][c[2]])])
        ELSE SumOver(cells, [c \in cells |-> Wm[c[1]][c[2]] * Wm[c[1]][c[2]]])

\* the norms of the parameter tensors other than the mixing matrix: the
\* shared tables, the biases and the created tables of the listed pairs
TableNorms ==
    LET created == {p \in Listed : ~IsNone(W[p])}
    IN  SumOver(1..n_modes,
                [m \in 1..n_modes |->
                   NormHalves(fetched.vals[NameOf(W[<<0, m>>])])])
        + SumOver(Listed,
                  [p \in Listed |-> NormHalves(fetched.vals[NameOf(Bias[p])])])
        + SumOver(created,
                  [p \in created |-> NormHalves(fetched.vals[NameOf(W[p])])])

\* column v of the mixing matrix
PhiColumn(v) ==
    LET phi == fetched.vals[NameOf(Phi)]
    IN  [k \in 1..Len(phi) |-> <<phi[k][v]>>]

\* C6 as stated: the regularization sums the norm of every shared table,
\* bias and created table, of each column of Phi and of Phi as a whole
C6_ColumnsAndWhole ==
    HasRun =>
        fetched.regularization
          = TableNorms
            + SumOver(1..n_views,
                      [v \in 1..n_views |-> NormHalves(PhiColumn(v))])
            + NormHalves(fetched.vals[NameOf(Phi)])

\* C6 amended: the regularization sums the norm ('L1': sum of absolute
\* values, otherwise half the sum of squares) of every shared table, of
\* every bias and created table of a listed (view, mode) pair, and of Phi
\* as a whole, once each; the norms of the columns of Phi are computed for
\* the summaries only and are not added
C6_WholeOnly ==
    HasRun =>
        fetched.regularization
          = TableNorms + NormHalves(fetched.vals[NameOf(Phi)])

\* a step evaluated with a regularization that the columns would change
C6_Witness ==
    /\ HasRun
    /\ fetched.regularization > 0
    /\ \E v \in 1..n_views : NormHalves(PhiColumn(v)) > 0

\* C7 as stated: the trainer minimizes the checked target, the target is
\* the loss plus reg times the regularization, and a step whose target is
\* NaN or infinite fails with the error of the finiteness check and leaves
\* every variable as it was
C7_CheckedTarget ==
    /\ ~IsNone(trainer) => trainer[3] = "checked_target"
    /\ HasRun =>
         /\ fetched.target
              = FAdd(fetched.reduced_loss, Fin(reg * fetched.regularization))
         /\ ~IsFinite(fetched.target) =>
              /\ fetched.error = "InvalidArgumentError"
              /\ val = fetched.vals
         /\ IsFinite(fetched.target) => fetched.error = "none"

\* ================================================ regularization, failures
\* the tensors of the listed (view, mode) pairs that exist, the shared
\* tables and the mixing matrix
Materialized ==
    {NameOf(W[<<0, m>>]) : m \in 1..n_modes}
    \cup {NameOf(Bias[p]) : p \in {q \in Listed : ~IsNone(Bias[q])}}
    \cup {NameOf(W[p]) : p \in {q \in Listed : ~IsNone(W[q])}}
    \cup {NameOf(Phi)}

\* how often the norm of tensor n was added to the regularization
TimesAdded(n) ==
    Cardinality({k \in 1..Len(regularization[3]) : regularization[3][k] = n})

\* C11 as stated: a bias or table of a listed (view, mode) pair that did not
\* materialize adds nothing to the regularization: the norms added are
\* those of the materialized tensors, once each
C11_FailedSlotAddsZero ==
    (InGraph(regularization) /\ ParamsInGraph) =>
        /\ \A n \in Materialized : TimesAdded(n) = 1
        /\ Len(regularization[3]) = Cardinality(Materialized)

\* ========================================================= the view product
\* the arrangements of the modes of view i: every order in which the view
\* specification can list them
Arrangements(i) ==
    LET modes == ModesOf(view_list[i])
        n == Cardinality(modes)
    IN  {s \in [1..n -> modes] : \A m \in modes : \E k \in 1..n : s[k] = m}

\* the bias-added embedding of mode m in view i, in the evaluated step
BiasAdded(i, m) == XW_value(fetched.vals, feed_dict, i, m)

\* entry (e, j) of the elementwise product of the bias-added embeddings of
\* the modes order[k..], multiplied in the order given
RECURSIVE ProductFrom(_, _, _, _, _)
ProductFrom(i, order, k, e, j) ==
    IF k > Len(order) THEN 1
    ELSE BiasAdded(i, order[k])[e][j] * ProductFrom(i, order, k + 1, e, j)

\* C12: the product tensor of a view is the elementwise product of the
\* bias-added embeddings of its modes taken in any order of listing, the
\* view's contribution is that product times its column of Phi, and the
\* output is the sum of the contributions: none of them depends on the
\* order in which the view specification lists the modes
C12_OrderIndependent ==
    HasRun =>
        LET phi == fetched.vals[NameOf(Phi)]
            r == Len(phi)
        IN  /\ \A i \in 1..n_views : \A order \in Arrangements(i) :
                 \A e \in 1..feed_dict.batch :
                    /\ \A j \in 1..r :
                         fetched.prod_embedding[i][e][j]
                           = ProductFrom(i, order, 1, e, j)
                    /\ fetched.view_contribution[i][e][1]
                         = SumOver(1..r,
                              [j \in 1..r |->
                                 ProductFrom(i, order, 1, e, j) * phi[j][i]])
            /\ \A e \in 1..feed_dict.batch :
                 fetched.outputs[e][1]
                   = SumOver(1..n_views,
                        [i \in 1..n_views |->
                           fetched.view_contribution[i][e][1]])

\* a step evaluated for a view that lists its modes in descending order,
\* with biases that are not zero and a product that is not zero
C12_Witness ==
    /\ HasRun
    /\ view_list = << <<2, 1>> >>
    /\ \E j \in 1..co_rank : fetched.vals[NameOf(Bias[<<1, 2>>])][1][j] # 0
    /\ \E e \in 1..feed_dict.batch, j \in 1..co_rank :
          /\ fetched.prod_embedding[1][e][j] # 0
          /\ fetched.prod_embedding[1][e][j] # BiasAdded(1, 1)[e][j]

====
